---- MODULE Spec2Model ----
(***************************************************************************)
(* VecBase: the record map (VecBase.records), the HNSW-lite graph index    *)
(* (HnswIndex.nodes / entry) and the operations insert, search, delete,    *)
(* get of vcore/src/lib.rs and vcore/src/processing.rs, with the metric    *)
(* functions of vcore/src/embedding.rs.  op is the call made last, ret the *)
(* value it returned, hooks the Plugin hooks it invoked, in call order.     *)
(*                                                                         *)
(* f32 values are modelled in fixed point: the integer x stands for x/100, *)
(* so <<60, 80>> is the unit vector (0.6, 0.8) and <<6, 8>> normalizes to  *)
(* it.  Square roots and divisions round toward zero.  Non-finite values   *)
(* (NaN, infinity) are outside the model.                                  *)
(***************************************************************************)
EXTENDS Integers, Sequences, FiniteSets, TLC

VARIABLES config, records, nodes, entry, op, ret, hooks

vars == <<config, records, nodes, entry, op, ret, hooks>>

store == <<records, nodes, entry>>

---------------------------------------------------------------------------
(* Bounds and inputs *)

Ids == {"a", "b", "c"}

\* Option::None, for metadata and for the entry point
None == "None"

\* VecBaseConfig: the configurations explored (storage_path is unused)
Cfg(metric, max_elements) == [dim |-> 2, metric |-> metric, max_elements |-> max_elements]

Configs == {Cfg("Cosine", 0), Cfg("Cosine", 1), Cfg("Cosine", 2), Cfg("Euclidean", 2), Cfg("DotProduct", 1)}

\* (vector, metadata) pairs offered to insert: length 2 is valid, 1 is not
Items == {[vector |-> <<5, 0>>, metadata |-> None], [vector |-> <<6, 8>>, metadata |-> "m1"], [vector |-> <<5>>, metadata |-> None]}

\* queries offered to search: length 2 is valid, 1 is not
Queries == {<<6, 8>>, <<5>>}

\* largest top_k offered to search
MaxK == 2

\* BatchInsert descriptors offered to batch_insert: a and b with valid
\* vectors, c and b with a vector of the wrong length
BatchItems == {[id |-> "a", vector |-> <<5, 0>>, metadata |-> None], [id |-> "b", vector |-> <<6, 8>>, metadata |-> "m1"], [id |-> "c", vector |-> <<5>>, metadata |-> None], [id |-> "b", vector |-> <<5>>, metadata |-> None]}

\* longest batch offered to batch_insert
MaxBatch == 3

\* the batches offered to batch_insert
Batches == UNION {[1..n -> BatchItems] : n \in 0..MaxBatch}

\* the model's stand-in for HnswIndex::m (16 in HnswIndex::new), scaled down
\* so that neighbor lists fill up with the few ids of the model
M == 1

\* the model's stand-in for BRUTE_THRESHOLD (500), scaled down so that the
\* brute-force regime (with several nodes to rank) and the graph regime both
\* occur with the few ids of the model
BRUTE_THRESHOLD == 2

---------------------------------------------------------------------------
(* Sequence helpers *)

Range(s) == {s[i] : i \in 1..Len(s)}

\* the possible iteration orders of a HashMap holding the keys S
Orders(S) == {s \in [1..Cardinality(S) -> S] : \A i, j \in 1..Cardinality(S) : i # j => s[i] # s[j]}

\* HashMap::insert: add or replace the entry of key k
Put(f, k, v) == [x \in DOMAIN f \cup {k} |-> IF x = k THEN v ELSE f[x]]

\* HashMap::remove: drop the entry of key k, if any
Drop(f, k) == [x \in DOMAIN f \ {k} |-> f[x]]

\* Vec::truncate
Truncate(s, n) == IF Len(s) <= n THEN s ELSE SubSeq(s, 1, n)

\* one step of a stable descending sort: e goes after every element whose
\* score is at least its own
InsertSorted(sorted, e) ==
  LET lower == {i \in 1..Len(sorted) : sorted[i].score < e.score}
      p == IF lower = {} THEN Len(sorted) + 1 ELSE CHOOSE i \in lower : \A j \in lower : i <= j
  IN SubSeq(sorted, 1, p - 1) \o <<e>> \o SubSeq(sorted, p, Len(sorted))

RECURSIVE SortDesc(_)
\* slice::sort_by(|a, b| b.score.partial_cmp(&a.score)): stable, descending
SortDesc(s) ==
  IF s = <<>> THEN <<>>
  ELSE InsertSorted(SortDesc(SubSeq(s, 1, Len(s) - 1)), s[Len(s)])

---------------------------------------------------------------------------
(* embedding.rs *)

\* integer square root, rounding toward zero
Sqrt(n) == CHOOSE r \in 0..n : r * r <= n /\ (r + 1) * (r + 1) > n

\* division rounding toward zero
Div(x, y) == IF x >= 0 THEN x \div y ELSE -((-x) \div y)

RECURSIVE SumSeq(_)
SumSeq(s) == IF s = <<>> THEN 0 ELSE s[1] + SumSeq(Tail(s))

Shorter(a, b) == IF Len(a) <= Len(b) THEN Len(a) ELSE Len(b)

magnitude(v) == Sqrt(SumSeq([i \in 1..Len(v) |-> v[i] * v[i]]))

\* mag < 1e-10 is mag < 1 in fixed point; 100 is the fixed-point 1.0
normalize(v) ==
  LET mag == magnitude(v)
  IN IF mag < 1 THEN v ELSE [i \in 1..Len(v) |-> Div(v[i] * 100, mag)]

dot(a, b) == SumSeq([i \in 1..Shorter(a, b) |-> a[i] * b[i]])

euclidean_distance_sq(a, b) == SumSeq([i \in 1..Shorter(a, b) |-> (a[i] - b[i]) * (a[i] - b[i])])

euclidean_distance(a, b) == Sqrt(euclidean_distance_sq(a, b))

\* a score that returns the euclidean distance itself
score_distance(metric, query, candidate) ==
  CASE metric = "Cosine" -> dot(query, candidate)
    [] metric = "DotProduct" -> dot(query, candidate)
    [] metric = "Euclidean" -> euclidean_distance(query, candidate)

score(metric, query, candidate) ==
  CASE metric = "Cosine" -> dot(query, candidate)
    [] metric = "DotProduct" -> dot(query, candidate)
    [] metric = "Euclidean" -> -euclidean_distance(query, candidate)

---------------------------------------------------------------------------
(* processing.rs: HnswIndex.  A node is [vector, neighbors], keyed by id;  *)
(* neighbors is the layer-0 list.                                          *)

\* the (id, score) list of brute_search before sorting, in iteration order
Scored(ns, order, query, metric) ==
  [i \in 1..Len(order) |-> [id |-> order[i], score |-> score(metric, query, ns[order[i]].vector)]]

\* a scan that truncates before it sorts
brute_search_truncate_first(ns, order, query, top_k, metric) ==
  SortDesc(Truncate(Scored(ns, order, query, metric), top_k))

brute_search(ns, order, query, top_k, metric) ==
  Truncate(SortDesc(Scored(ns, order, query, metric)), top_k)

RECURSIVE Explore_revisits(_, _, _, _, _, _, _)
\* a neighbor loop that does not look at the visited set
Explore_revisits(ns, nbrs, i, query, metric, visited, candidates) ==
  IF i > Len(nbrs) THEN [visited |-> visited, candidates |-> candidates]
  ELSE Explore_revisits(ns, nbrs, i + 1, query, metric, visited \cup {nbrs[i]},
                        IF nbrs[i] \in DOMAIN ns
                          THEN Append(candidates, [id |-> nbrs[i], score |-> score(metric, query, ns[nbrs[i]].vector)])
                          ELSE candidates)

RECURSIVE Explore(_, _, _, _, _, _, _)
\* the neighbor loop of graph_search over nbrs[i..]
Explore(ns, nbrs, i, query, metric, visited, candidates) ==
  IF i > Len(nbrs) THEN [visited |-> visited, candidates |-> candidates]
  ELSE IF nbrs[i] \in visited
    THEN Explore(ns, nbrs, i + 1, query, metric, visited, candidates)
    ELSE Explore(ns, nbrs, i + 1, query, metric, visited \cup {nbrs[i]},
                 IF nbrs[i] \in DOMAIN ns
                   THEN Append(candidates, [id |-> nbrs[i], score |-> score(metric, query, ns[nbrs[i]].vector)])
                   ELSE candidates)

RECURSIVE GraphLoop_overshoot(_, _, _, _, _, _, _)
\* a while loop that runs until the accumulator exceeds ef
GraphLoop_overshoot(ns, query, metric, ef, visited, candidates, results) ==
  IF candidates = <<>> \/ Len(results) > ef THEN results
  ELSE LET sorted == SortDesc(candidates)
           cur == sorted[1]
           ex == IF cur.id \in DOMAIN ns
                   THEN Explore(ns, ns[cur.id].neighbors, 1, query, metric, visited, Tail(sorted))
                   ELSE [visited |-> visited, candidates |-> Tail(sorted)]
       IN GraphLoop_overshoot(ns, query, metric, ef, ex.visited, ex.candidates, Append(results, cur))

RECURSIVE GraphLoop(_, _, _, _, _, _, _)
\* the while loop of graph_search; the accumulator before the final sort
GraphLoop(ns, query, metric, ef, visited, candidates, results) ==
  IF candidates = <<>> \/ Len(results) >= ef THEN results
  ELSE LET sorted == SortDesc(candidates)
           cur == sorted[1]
           ex == IF cur.id \in DOMAIN ns
                   THEN Explore(ns, ns[cur.id].neighbors, 1, query, metric, visited, Tail(sorted))
                   ELSE [visited |-> visited, candidates |-> Tail(sorted)]
       IN GraphLoop(ns, query, metric, ef, ex.visited, ex.candidates, Append(results, cur))

\* exploration factor
Ef(top_k) == top_k * 4

\* graph_search seeded with the best-scoring node instead of the entry point
graph_search_best_seed(ns, en, query, top_k, metric) ==
  IF en = None THEN <<>>
  ELSE LET best == CHOOSE x \in DOMAIN ns :
                     \A y \in DOMAIN ns : score(metric, query, ns[x].vector) >= score(metric, query, ns[y].vector)
           seed == <<[id |-> best, score |-> score(metric, query, ns[best].vector)]>>
       IN Truncate(SortDesc(GraphLoop(ns, query, metric, Ef(top_k), {best}, seed, <<>>)), top_k)

\* graph_search without the final sort of the accumulator
graph_search_unsorted(ns, en, query, top_k, metric) ==
  IF en = None THEN <<>>
  ELSE LET seed == IF en \in DOMAIN ns
                     THEN <<[id |-> en, score |-> score(metric, query, ns[en].vector)]>>
                     ELSE <<>>
           visited == IF en \in DOMAIN ns THEN {en} ELSE {}
       IN Truncate(GraphLoop(ns, query, metric, Ef(top_k), visited, seed, <<>>), top_k)

graph_search(ns, en, query, top_k, metric) ==
  IF en = None THEN <<>>
  ELSE LET seed == IF en \in DOMAIN ns
                     THEN <<[id |-> en, score |-> score(metric, query, ns[en].vector)]>>
                     ELSE <<>>
           visited == IF en \in DOMAIN ns THEN {en} ELSE {}
       IN Truncate(SortDesc(GraphLoop(ns, query, metric, Ef(top_k), visited, seed, <<>>)), top_k)

\* a search that always scans every node
HnswIndex_search_always_brute(ns, en, order, query, top_k, metric) ==
  IF DOMAIN ns = {} THEN <<>>
  ELSE brute_search(ns, order, query, top_k, metric)

\* a search that leaves the brute-force regime one node early
HnswIndex_search_strict_threshold(ns, en, order, query, top_k, metric) ==
  IF DOMAIN ns = {} THEN <<>>
  ELSE IF Cardinality(DOMAIN ns) < BRUTE_THRESHOLD
    THEN brute_search(ns, order, query, top_k, metric)
    ELSE graph_search(ns, en, query, top_k, metric)

HnswIndex_search(ns, en, order, query, top_k, metric) ==
  IF DOMAIN ns = {} THEN <<>>
  ELSE IF Cardinality(DOMAIN ns) <= BRUTE_THRESHOLD
    THEN brute_search(ns, order, query, top_k, metric)
    ELSE graph_search(ns, en, query, top_k, metric)

\* BRUTE_THRESHOLD as the source sets it
BRUTE_THRESHOLD_SOURCE == 500

\* HnswIndex::search with the threshold of the source
HnswIndex_search_source(ns, en, order, query, top_k, metric) ==
  IF DOMAIN ns = {} THEN <<>>
  ELSE IF Cardinality(DOMAIN ns) <= BRUTE_THRESHOLD_SOURCE
    THEN brute_search(ns, order, query, top_k, metric)
    ELSE graph_search(ns, en, query, top_k, metric)

RECURSIVE BackLink_unchecked(_, _, _, _)
\* a back-link loop that appends without looking at the list's length
BackLink_unchecked(ns, nearest, i, id) ==
  IF i > Len(nearest) THEN ns
  ELSE LET nid == nearest[i]
           linked == IF nid \in DOMAIN ns
                       THEN [ns EXCEPT ![nid].neighbors = Append(@, id)]
                       ELSE ns
       IN BackLink_unchecked(linked, nearest, i + 1, id)

RECURSIVE BackLink(_, _, _, _)
\* the back-link loop of insert over nearest[i..]
BackLink(ns, nearest, i, id) ==
  IF i > Len(nearest) THEN ns
  ELSE LET nid == nearest[i]
           linked == IF nid \in DOMAIN ns /\ Len(ns[nid].neighbors) < M
                       THEN [ns EXCEPT ![nid].neighbors = Append(@, id)]
                       ELSE ns
       IN BackLink(linked, nearest, i + 1, id)

\* a capacity test that lets one node too many in
AtCapacity_strict(ns, max_elements) == Cardinality(DOMAIN ns) > max_elements

\* the capacity test of insert
AtCapacity(ns, max_elements) == Cardinality(DOMAIN ns) >= max_elements

\* an insert that makes the inserted id the entry point
HnswIndex_insert_moves_entry(ns, en, max_elements, order, id, vector) ==
  IF AtCapacity(ns, max_elements) THEN [nodes |-> ns, entry |-> en]
  ELSE LET wired ==
             IF DOMAIN ns # {}
               THEN LET found == brute_search(ns, order, vector, M, "Cosine")
                        nearest == [i \in 1..Len(found) |-> found[i].id]
                    IN BackLink(Put(ns, id, [vector |-> vector, neighbors |-> nearest]), nearest, 1, id)
               ELSE Put(ns, id, [vector |-> vector, neighbors |-> <<>>])
       IN [nodes |-> wired, entry |-> id]

\* an insert that wires by euclidean distance
HnswIndex_insert_euclidean(ns, en, max_elements, order, id, vector) ==
  IF AtCapacity(ns, max_elements) THEN [nodes |-> ns, entry |-> en]
  ELSE LET wired ==
             IF DOMAIN ns # {}
               THEN LET found == brute_search(ns, order, vector, M, "Euclidean")
                        nearest == [i \in 1..Len(found) |-> found[i].id]
                    IN BackLink(Put(ns, id, [vector |-> vector, neighbors |-> nearest]), nearest, 1, id)
               ELSE Put(ns, id, [vector |-> vector, neighbors |-> <<>>])
       IN [nodes |-> wired, entry |-> IF en = None THEN id ELSE en]

\* an insert that replaces a node that exists also when the index is full
HnswIndex_insert_upsert(ns, en, max_elements, order, id, vector) ==
  IF AtCapacity(ns, max_elements) /\ id \notin DOMAIN ns THEN [nodes |-> ns, entry |-> en]
  ELSE LET wired ==
             IF DOMAIN ns # {}
               THEN LET found == brute_search(ns, order, vector, M, "Cosine")
                        nearest == [i \in 1..Len(found) |-> found[i].id]
                    IN BackLink(Put(ns, id, [vector |-> vector, neighbors |-> nearest]), nearest, 1, id)
               ELSE Put(ns, id, [vector |-> vector, neighbors |-> <<>>])
       IN [nodes |-> wired, entry |-> IF en = None THEN id ELSE en]

\* an insert that looks for the nearest nodes after it has stored the new one
HnswIndex_insert_searches_after_put(ns, en, max_elements, order, id, vector) ==
  IF AtCapacity(ns, max_elements) THEN [nodes |-> ns, entry |-> en]
  ELSE LET wired ==
             IF DOMAIN ns # {}
               THEN LET put == Put(ns, id, [vector |-> vector, neighbors |-> <<>>])
                        found == brute_search(put, Append(order, id), vector, M, "Cosine")
                        nearest == [i \in 1..Len(found) |-> found[i].id]
                    IN BackLink(Put(ns, id, [vector |-> vector, neighbors |-> nearest]), nearest, 1, id)
               ELSE Put(ns, id, [vector |-> vector, neighbors |-> <<>>])
       IN [nodes |-> wired, entry |-> IF en = None THEN id ELSE en]

HnswIndex_insert(ns, en, max_elements, order, id, vector) ==
  IF AtCapacity(ns, max_elements) THEN [nodes |-> ns, entry |-> en]
  ELSE LET wired ==
             IF DOMAIN ns # {}
               THEN LET found == brute_search(ns, order, vector, M, "Cosine")
                        nearest == [i \in 1..Len(found) |-> found[i].id]
                    IN BackLink(Put(ns, id, [vector |-> vector, neighbors |-> nearest]), nearest, 1, id)
               ELSE Put(ns, id, [vector |-> vector, neighbors |-> <<>>])
       IN [nodes |-> wired, entry |-> IF en = None THEN id ELSE en]

\* Vec::retain(|nid| nid != id)
Retain(s, id) == SelectSeq(s, LAMBDA nid : nid # id)

\* the entries nodes.keys().next() can yield
NextKey(ns) == IF DOMAIN ns = {} THEN {None} ELSE DOMAIN ns

\* remove that drops the back-references but keeps the node itself
HnswIndex_remove_keeps_node(ns, en, id, next) ==
  [nodes |-> [x \in DOMAIN ns |-> [ns[x] EXCEPT !.neighbors = Retain(@, id)]],
   entry |-> IF en = id THEN next ELSE en]

\* remove that drops the node but keeps the references to it
HnswIndex_remove_keeps_refs(ns, en, id, next) ==
  [nodes |-> Drop(ns, id), entry |-> IF en = id THEN next ELSE en]

\* remove that leaves the entry point alone
HnswIndex_remove_stale_entry(ns, en, id, next) ==
  LET kept == Drop(ns, id)
      cleaned == [x \in DOMAIN kept |-> [kept[x] EXCEPT !.neighbors = Retain(@, id)]]
  IN [nodes |-> cleaned, entry |-> en]

HnswIndex_remove(ns, en, id, next) ==
  LET kept == Drop(ns, id)
      cleaned == [x \in DOMAIN kept |-> [kept[x] EXCEPT !.neighbors = Retain(@, id)]]
  IN [nodes |-> cleaned, entry |-> IF en = id THEN next ELSE en]

---------------------------------------------------------------------------
(* lib.rs: VecBase *)

\* VecBase::new: the metric of a configuration
MetricOf(cfg) == cfg.metric

\* a length test that rejects only vectors that are too long
dimension_mismatch_longer(vector, dim) == Len(vector) > dim

dimension_mismatch(vector, dim) == Len(vector) # dim

\* a store that never normalizes
stored_vec_verbatim(metric, vector) == vector

stored_vec(metric, vector) == IF metric = "Cosine" THEN normalize(vector) ELSE vector

\* the query handed to the index by search
search_query(metric, query) == IF metric = "Cosine" THEN normalize(query) ELSE query

Ok == [kind |-> "Ok"]

DimensionMismatch(expected, got) == [kind |-> "DimensionMismatch", expected |-> expected, got |-> got]

NotFound(id) == [kind |-> "NotFound", id |-> id]

\* a len that reports the index's node count
len_of_index == Cardinality(DOMAIN nodes)

\* VecBase::len
len == Cardinality(DOMAIN records)

\* VecBase::new
Init ==
  /\ config \in Configs
  /\ records = <<>>
  /\ nodes = <<>>
  /\ entry = None
  /\ op = [name |-> "new"]
  /\ ret = [kind |-> "New"]
  /\ hooks = <<>>

\* VecBase::insert
Insert(id, vector, metadata) ==
  /\ op' = [name |-> "insert", id |-> id, vector |-> vector, metadata |-> metadata]
  /\ hooks' = <<>>
  /\ IF dimension_mismatch(vector, config.dim)
       THEN /\ ret' = DimensionMismatch(config.dim, Len(vector))
            /\ UNCHANGED <<config, records, nodes, entry>>
       ELSE \E order \in Orders(DOMAIN nodes) :
              LET sv == stored_vec(MetricOf(config), vector)
                  idx == HnswIndex_insert(nodes, entry, config.max_elements, order, id, sv)
              IN /\ records' = Put(records, id, [vector |-> sv, metadata |-> metadata])
                 /\ nodes' = idx.nodes
                 /\ entry' = idx.entry
                 /\ ret' = Ok
                 /\ UNCHANGED config

\* the filter_map of VecBase::search: join the graph result with the records
Join(recs, found) ==
  LET kept == SelectSeq(found, LAMBDA r : r.id \in DOMAIN recs)
  IN [i \in 1..Len(kept) |-> [id |-> kept[i].id, score |-> kept[i].score, metadata |-> recs[kept[i].id].metadata]]

\* search that reports an error when the index is empty
Search_rejects_empty(query, top_k) ==
  /\ op' = [name |-> "search", query |-> query, top_k |-> top_k]
  /\ hooks' = <<>>
  /\ IF dimension_mismatch(query, config.dim)
       THEN ret' = [kind |-> "Results", results |-> <<>>]
       ELSE IF DOMAIN nodes = {}
         THEN ret' = [kind |-> "StorageError"]
         ELSE \E order \in Orders(DOMAIN nodes) :
                LET q == search_query(MetricOf(config), query)
                    found == HnswIndex_search(nodes, entry, order, q, top_k, MetricOf(config))
                IN ret' = [kind |-> "Results", results |-> Join(records, found)]
  /\ UNCHANGED <<config, records, nodes, entry>>

\* VecBase::search
Search(query, top_k) ==
  /\ op' = [name |-> "search", query |-> query, top_k |-> top_k]
  /\ hooks' = <<>>
  /\ IF dimension_mismatch(query, config.dim)
       THEN ret' = [kind |-> "Results", results |-> <<>>]
       ELSE \E order \in Orders(DOMAIN nodes) :
              LET q == search_query(MetricOf(config), query)
                  found == HnswIndex_search(nodes, entry, order, q, top_k, MetricOf(config))
              IN ret' = [kind |-> "Results", results |-> Join(records, found)]
  /\ UNCHANGED <<config, records, nodes, entry>>

\* delete that reports success for an id that is not stored
Delete_idempotent(id) ==
  /\ op' = [name |-> "delete", id |-> id]
  /\ hooks' = <<>>
  /\ \E next \in NextKey(Drop(nodes, id)) :
       LET idx == HnswIndex_remove(nodes, entry, id, next)
       IN /\ records' = Drop(records, id)
          /\ nodes' = idx.nodes
          /\ entry' = idx.entry
          /\ ret' = Ok
          /\ UNCHANGED config

\* delete that removes the record and leaves the index alone
Delete_keeps_node(id) ==
  /\ op' = [name |-> "delete", id |-> id]
  /\ hooks' = <<>>
  /\ IF id \notin DOMAIN records
       THEN /\ ret' = NotFound(id)
            /\ UNCHANGED <<config, records, nodes, entry>>
       ELSE /\ records' = Drop(records, id)
            /\ ret' = Ok
            /\ UNCHANGED <<config, nodes, entry>>

\* VecBase::delete
Delete(id) ==
  /\ op' = [name |-> "delete", id |-> id]
  /\ hooks' = <<>>
  /\ IF id \notin DOMAIN records
       THEN /\ ret' = NotFound(id)
            /\ UNCHANGED <<config, records, nodes, entry>>
       ELSE \E next \in NextKey(Drop(nodes, id)) :
              LET idx == HnswIndex_remove(nodes, entry, id, next)
              IN /\ records' = Drop(records, id)
                 /\ nodes' = idx.nodes
                 /\ entry' = idx.entry
                 /\ ret' = Ok
                 /\ UNCHANGED config

\* get that takes the record out of the map
Get_takes(id) ==
  /\ op' = [name |-> "get", id |-> id]
  /\ hooks' = <<>>
  /\ ret' = IF id \in DOMAIN records
              THEN [kind |-> "Some", record |-> records[id]]
              ELSE [kind |-> "NoRecord"]
  /\ records' = Drop(records, id)
  /\ UNCHANGED <<config, nodes, entry>>

\* VecBase::get
Get(id) ==
  /\ op' = [name |-> "get", id |-> id]
  /\ hooks' = <<>>
  /\ ret' = IF id \in DOMAIN records
              THEN [kind |-> "Some", record |-> records[id]]
              ELSE [kind |-> "NoRecord"]
  /\ UNCHANGED <<config, records, nodes, entry>>

---------------------------------------------------------------------------
(* processing.rs: batch_insert *)

\* VecBase::insert as a function of the store st = [records, nodes, entry]:
\* the stores and results it can produce, one per iteration order of nodes
VecBase_insert(st, cfg, id, vector, metadata) ==
  IF dimension_mismatch(vector, cfg.dim)
    THEN {[records |-> st.records, nodes |-> st.nodes, entry |-> st.entry,
           ret |-> DimensionMismatch(cfg.dim, Len(vector))]}
    ELSE {LET sv == stored_vec(MetricOf(cfg), vector)
              idx == HnswIndex_insert(st.nodes, st.entry, cfg.max_elements, order, id, sv)
          IN [records |-> Put(st.records, id, [vector |-> sv, metadata |-> metadata]),
              nodes |-> idx.nodes, entry |-> idx.entry, ret |-> Ok]
            : order \in Orders(DOMAIN st.nodes)}

\* a loop body that counts every item as inserted
BatchStep_counts_all(cfg, a, item) ==
  {[records |-> o.records, nodes |-> o.nodes, entry |-> o.entry,
    inserted |-> a.inserted + 1,
    failed |-> IF o.ret = Ok THEN a.failed ELSE Append(a.failed, <<item.id, o.ret>>)]
     : o \in VecBase_insert(a, cfg, item.id, item.vector, item.metadata)}

\* a loop body that applies nothing more once an item has failed
BatchStep_stops_on_failure(cfg, a, item) ==
  IF a.failed # <<>> THEN {a}
  ELSE {[records |-> o.records, nodes |-> o.nodes, entry |-> o.entry,
         inserted |-> IF o.ret = Ok THEN a.inserted + 1 ELSE a.inserted,
         failed |-> IF o.ret = Ok THEN a.failed ELSE Append(a.failed, <<item.id, o.ret>>)]
          : o \in VecBase_insert(a, cfg, item.id, item.vector, item.metadata)}

\* the body of the for loop of batch_insert, from the state a of the store
\* and of the counters; the reason of a failure is the error itself
BatchStep(cfg, a, item) ==
  {[records |-> o.records, nodes |-> o.nodes, entry |-> o.entry,
    inserted |-> IF o.ret = Ok THEN a.inserted + 1 ELSE a.inserted,
    failed |-> IF o.ret = Ok THEN a.failed ELSE Append(a.failed, <<item.id, o.ret>>)]
     : o \in VecBase_insert(a, cfg, item.id, item.vector, item.metadata)}

RECURSIVE BatchLoop(_, _, _, _)
\* the for loop of batch_insert over items[i..], from each state of acc
BatchLoop(cfg, items, i, acc) ==
  IF i > Len(items) THEN acc
  ELSE BatchLoop(cfg, items, i + 1, UNION {BatchStep(cfg, a, items[i]) : a \in acc})

\* batch_insert
BatchInsert(items) ==
  /\ op' = [name |-> "batch_insert", items |-> items]
  /\ hooks' = <<>>
  /\ \E out \in BatchLoop(config, items, 1,
                  {[records |-> records, nodes |-> nodes, entry |-> entry, inserted |-> 0, failed |-> <<>>]}) :
       /\ records' = out.records
       /\ nodes' = out.nodes
       /\ entry' = out.entry
       /\ ret' = [kind |-> "BatchResult", inserted |-> out.inserted, failed |-> out.failed]
  /\ UNCHANGED config

NextBatch ==
  \/ \E items \in Batches : BatchInsert(items)
  \/ \E id \in Ids : Delete(id)

\* the configurations explored with batches
BatchConfigs == {Cfg("Cosine", 2), Cfg("DotProduct", 1)}

InitBatch == Init /\ config \in BatchConfigs

SpecBatch == InitBatch /\ [][NextBatch]_vars

\* the configurations explored with graphs larger than BRUTE_THRESHOLD
SearchConfigs == {Cfg("Cosine", 3), Cfg("Euclidean", 3)}

\* records offered to insert when searching: a may take b's vector, so that
\* two nodes can score the same
SearchItems == {[id |-> "a", vector |-> <<5, 0>>, metadata |-> None], [id |-> "a", vector |-> <<6, 8>>, metadata |-> None], [id |-> "b", vector |-> <<6, 8>>, metadata |-> "m1"], [id |-> "c", vector |-> <<0, 5>>, metadata |-> None]}

InitSearch ==
  /\ config \in SearchConfigs
  /\ records = <<>>
  /\ nodes = <<>>
  /\ entry = None
  /\ op = [name |-> "new"]
  /\ ret = [kind |-> "New"]
  /\ hooks = <<>>

NextSearch ==
  \/ \E item \in SearchItems : Insert(item.id, item.vector, item.metadata)
  \/ \E top_k \in 0..MaxK : Search(<<6, 8>>, top_k)
  \/ \E id \in Ids : Delete(id)

SpecSearch == InitSearch /\ [][NextSearch]_vars

---------------------------------------------------------------------------
(* example/basic.rs: the store of the basic example.  Its five nodes are   *)
(* within the threshold the source sets, so its searches are modelled with *)
(* BRUTE_THRESHOLD_SOURCE.                                                  *)

\* VecBaseConfig { dim: 4, metric: "cosine", ..Default::default() }
ExampleConfig == [dim |-> 4, metric |-> "Cosine", max_elements |-> 1000000]

\* the records of the example, in the order it inserts them
ExampleRecords ==
  << [id |-> "cat", vector |-> <<90, 10, 0, 0>>, metadata |-> "label:cat"],
     [id |-> "dog", vector |-> <<80, 20, 0, 0>>, metadata |-> "label:dog"],
     [id |-> "car", vector |-> <<0, 0, 90, 10>>, metadata |-> "label:car"],
     [id |-> "bus", vector |-> <<0, 0, 80, 20>>, metadata |-> "label:bus"],
     [id |-> "fish", vector |-> <<50, 50, 0, 0>>, metadata |-> "label:fish"] >>

ExampleIds == {ExampleRecords[i].id : i \in 1..Len(ExampleRecords)}

\* the query of the example
ExampleQuery == <<95, 5, 0, 0>>

\* the top_k of the example
ExampleK == 3

\* the ids deleted: fish, which the example deletes, and cat, its entry point
ExampleDeletes == {"cat", "fish"}

\* the loop of the example: the next record not yet stored is inserted
ExampleInsert(i) ==
  /\ ExampleRecords[i].id \notin DOMAIN records
  /\ \A j \in 1..(i - 1) : ExampleRecords[j].id \in DOMAIN records
  /\ Insert(ExampleRecords[i].id, ExampleRecords[i].vector, ExampleRecords[i].metadata)

\* VecBase::search with the threshold of the source
ExampleSearch(query, top_k) ==
  /\ op' = [name |-> "search", query |-> query, top_k |-> top_k]
  /\ hooks' = <<>>
  /\ IF dimension_mismatch(query, config.dim)
       THEN ret' = [kind |-> "Results", results |-> <<>>]
       ELSE \E order \in Orders(DOMAIN nodes) :
              LET q == search_query(MetricOf(config), query)
                  found == HnswIndex_search_source(nodes, entry, order, q, top_k, MetricOf(config))
              IN ret' = [kind |-> "Results", results |-> Join(records, found)]
  /\ UNCHANGED <<config, records, nodes, entry>>

InitExample ==
  /\ config = ExampleConfig
  /\ records = <<>>
  /\ nodes = <<>>
  /\ entry = None
  /\ op = [name |-> "new"]
  /\ ret = [kind |-> "New"]
  /\ hooks = <<>>

NextExample ==
  \/ \E i \in 1..Len(ExampleRecords) : ExampleInsert(i)
  \/ \E top_k \in 0..ExampleK : ExampleSearch(ExampleQuery, top_k)
  \/ \E id \in ExampleDeletes : Delete(id)

SpecExample == InitExample /\ [][NextExample]_vars

---------------------------------------------------------------------------

\* the configuration explored with traversals that run out of budget
TraverseConfigs == {Cfg("Cosine", 5)}

\* records offered to insert when traversing, by growing angle to the first:
\* each is nearest to the one before it
TraverseRecords ==
  << [id |-> "t1", vector |-> <<100, 0>>, metadata |-> None],
     [id |-> "t2", vector |-> <<95, 30>>, metadata |-> None],
     [id |-> "t3", vector |-> <<80, 60>>, metadata |-> None],
     [id |-> "t4", vector |-> <<60, 80>>, metadata |-> None],
     [id |-> "t5", vector |-> <<30, 95>>, metadata |-> None] >>

\* the ids offered to delete when traversing
TraverseDeletes == {"t1", "t2"}

\* the queries offered to search when traversing
TraverseQueries == {<<100, 0>>, <<0, 100>>}

\* the next record not yet stored is inserted
TraverseInsert(i) ==
  /\ TraverseRecords[i].id \notin DOMAIN records
  /\ \A j \in 1..(i - 1) : TraverseRecords[j].id \in DOMAIN records
  /\ Insert(TraverseRecords[i].id, TraverseRecords[i].vector, TraverseRecords[i].metadata)

InitTraverse ==
  /\ config \in TraverseConfigs
  /\ records = <<>>
  /\ nodes = <<>>
  /\ entry = None
  /\ op = [name |-> "new"]
  /\ ret = [kind |-> "New"]
  /\ hooks = <<>>

NextTraverse ==
  \/ \E i \in 1..Len(TraverseRecords) : TraverseInsert(i)
  \/ \E query \in TraverseQueries, top_k \in 0..MaxK : Search(query, top_k)
  \/ \E id \in TraverseDeletes : Delete(id)

SpecTraverse == InitTraverse /\ [][NextTraverse]_vars

\* the configuration explored with inserts into graphs larger than
\* BRUTE_THRESHOLD
WireConfigs == {Cfg("Cosine", 4)}

\* records offered to insert when wiring: one vector per id, d nearest to c
WireItems == {[id |-> "a", vector |-> <<5, 0>>, metadata |-> None], [id |-> "b", vector |-> <<6, 8>>, metadata |-> "m1"], [id |-> "c", vector |-> <<0, 5>>, metadata |-> None], [id |-> "d", vector |-> <<1, 5>>, metadata |-> None]}

WireIds == {item.id : item \in WireItems}

InitWire ==
  /\ config \in WireConfigs
  /\ records = <<>>
  /\ nodes = <<>>
  /\ entry = None
  /\ op = [name |-> "new"]
  /\ ret = [kind |-> "New"]
  /\ hooks = <<>>

NextWire ==
  \/ \E item \in WireItems : Insert(item.id, item.vector, item.metadata)
  \/ \E id \in WireIds : Delete(id)

SpecWire == InitWire /\ [][NextWire]_vars

---------------------------------------------------------------------------
(* callers that never insert an id that is stored *)

\* VecBase::insert called with an id that is not stored; a call with a
\* stored id is one the dimension test rejects
InsertFresh(id, vector, metadata) ==
  /\ id \in DOMAIN records => dimension_mismatch(vector, config.dim)
  /\ Insert(id, vector, metadata)

NextFresh ==
  \/ \E id \in Ids, item \in Items : InsertFresh(id, item.vector, item.metadata)
  \/ \E query \in Queries, top_k \in 0..MaxK : Search(query, top_k)
  \/ \E id \in Ids : Delete(id)
  \/ \E id \in Ids : Get(id)

SpecFresh == Init /\ [][NextFresh]_vars

\* VecBase::delete as a function of the store st = [records, nodes, entry]:
\* the stores and results it can produce, one per key nodes.keys().next()
\* can yield
VecBase_delete(st, id) ==
  IF id \notin DOMAIN st.records
    THEN {[records |-> st.records, nodes |-> st.nodes, entry |-> st.entry, ret |-> NotFound(id)]}
    ELSE {LET idx == HnswIndex_remove(st.nodes, st.entry, id, next)
          IN [records |-> Drop(st.records, id), nodes |-> idx.nodes, entry |-> idx.entry, ret |-> Ok]
            : next \in NextKey(Drop(st.nodes, id))}

---------------------------------------------------------------------------

Next ==
  \/ \E id \in Ids, item \in Items : Insert(id, item.vector, item.metadata)
  \/ \E query \in Queries, top_k \in 0..MaxK : Search(query, top_k)
  \/ \E id \in Ids : Delete(id)
  \/ \E id \in Ids : Get(id)

Spec == Init /\ [][Next]_vars

---------------------------------------------------------------------------
(* Claims *)

\* the ids of a search result, as a set
ResultIds(results) == {results[i].id : i \in 1..Len(results)}

\* C1: after any sequence of completed inserts and deletes the ids of the
\* record map are the ids of the graph, so len() is the graph's node count.
C1_RecordsMatchGraph == DOMAIN records = DOMAIN nodes /\ len = Cardinality(DOMAIN nodes)

\* C2: a store configured with max_elements = N never reports len() > N.
C2_LenWithinMaxElements == len <= config.max_elements

\* C3: an insert whose vector length differs from dim returns
\* DimensionMismatch{expected = dim, got = length} and leaves the record map,
\* the graph nodes with their neighbor lists and the entry point unchanged.
C3_MismatchIsAtomicNoOp ==
  [][(op'.name = "insert" /\ Len(op'.vector) # config.dim)
       => (/\ ret' = DimensionMismatch(config.dim, Len(op'.vector))
           /\ UNCHANGED <<records, nodes, entry>>)]_vars

C3_Witness ==
  /\ op.name = "insert"
  /\ Len(op.vector) # config.dim
  /\ ret.kind = "DimensionMismatch"
  /\ DOMAIN nodes # {}

\* C4: a successful insert increases len() by exactly 1 when the id is not
\* yet stored and leaves len() unchanged when it is.
C4_InsertLen ==
  [][(op'.name = "insert" /\ ret' = Ok)
       => len' = (IF op'.id \in DOMAIN records THEN len ELSE len + 1)]_vars

C4_Witness ==
  /\ op.name = "insert"
  /\ ret = Ok
  /\ len = 3
  /\ Cardinality(DOMAIN nodes) = config.max_elements

\* C5: delete of a stored id succeeds, decreases len() by exactly 1, makes
\* get(id) find nothing and leaves no record and no node with that id.
C5_DeleteStored ==
  [][(op'.name = "delete" /\ op'.id \in DOMAIN records)
       => (/\ ret' = Ok
           /\ len' = len - 1
           /\ op'.id \notin DOMAIN records'
           /\ op'.id \notin DOMAIN nodes')]_vars

C5_Witness ==
  /\ op.name = "delete"
  /\ ret = Ok
  /\ op.id \notin DOMAIN records
  /\ DOMAIN nodes # {}

\* C6: delete of an id that is not stored returns NotFound{id} and leaves
\* len(), the record map, the graph and the entry point unchanged.
C6_DeleteAbsent ==
  [][(op'.name = "delete" /\ op'.id \notin DOMAIN records)
       => (/\ ret' = NotFound(op'.id)
           /\ len' = len
           /\ UNCHANGED <<records, nodes, entry>>)]_vars

C6_Witness ==
  /\ op.name = "delete"
  /\ ret = NotFound(op.id)
  /\ DOMAIN nodes # {}

\* C7: search returns at most k results, in non-increasing order of score,
\* in the exact and in the approximate regime.
C7_SearchBoundedSorted ==
  op.name = "search"
    => (/\ Len(ret.results) <= op.top_k
        /\ \A i \in 1..(Len(ret.results) - 1) : ret.results[i].score >= ret.results[i + 1].score)

C7_Witness ==
  /\ op.name = "search"
  /\ Cardinality(DOMAIN nodes) > BRUTE_THRESHOLD
  /\ Len(ret.results) = 2
  /\ ret.results[1].score > ret.results[2].score
  /\ ret.results[1].id # entry

\* C8: when the store size is at most the threshold and k is at least the
\* store size, a search with a query of length dim returns every stored id
\* exactly once.
C8_SearchReturnsAll ==
  (/\ op.name = "search"
   /\ Len(op.query) = config.dim
   /\ len <= BRUTE_THRESHOLD
   /\ op.top_k >= len)
    => (ResultIds(ret.results) = DOMAIN records /\ Len(ret.results) = len)

\* C9: after a successful insert(id, v, m) get(id) finds a record whose
\* vector is normalize(v) under the cosine metric and v itself under the
\* euclidean and dot metrics, and whose metadata is m.
C9_InsertThenGet ==
  [][(op'.name = "insert" /\ Len(op'.vector) = config.dim)
       => (/\ ret' = Ok
           /\ op'.id \in DOMAIN records'
           /\ records'[op'.id].vector =
                (IF config.metric = "Cosine" THEN normalize(op'.vector) ELSE op'.vector)
           /\ records'[op'.id].metadata = op'.metadata)]_vars

C9_Witness ==
  /\ op.name = "insert"
  /\ ret = Ok
  /\ config.metric = "Cosine"
  /\ records[op.id].vector # op.vector
  /\ records[op.id].metadata = "m1"

\* C10: after every successful insert the graph holds a node for the id
\* whose vector is the vector of the record for the id.
C10_RecordAndNodeTogether ==
  (op.name = "insert" /\ ret = Ok)
    => (/\ op.id \in DOMAIN records
        /\ op.id \in DOMAIN nodes
        /\ nodes[op.id].vector = records[op.id].vector)

\* C11: every node's neighbor list holds no id twice and not the node's own
\* id, after any sequence of inserts, re-inserts and deletes.
C11_NeighborsDistinctNoSelf ==
  \A x \in DOMAIN nodes :
    LET l == nodes[x].neighbors
    IN /\ \A i, j \in 1..Len(l) : i # j => l[i] # l[j]
       /\ x \notin Range(l)

\* C12: every node's neighbor list has at most M entries.
C12_NeighborsAtMostM == \A x \in DOMAIN nodes : Len(nodes[x].neighbors) <= M

\* a back-link was refused: y is a neighbor of x, y's list is full and does
\* not hold x
C12_Witness ==
  \E x, y \in DOMAIN nodes :
    /\ x # y
    /\ y \in Range(nodes[x].neighbors)
    /\ Len(nodes[y].neighbors) = M
    /\ x \notin Range(nodes[y].neighbors)

\* C13: the entry point, if set, is a node of the graph; deleting the entry
\* node moves the entry to a remaining node, or clears it when the graph
\* becomes empty.
C13_EntryIsLive ==
  [][/\ entry' # None => entry' \in DOMAIN nodes'
     /\ (op'.name = "delete" /\ ret' = Ok /\ entry = op'.id)
          => (IF DOMAIN nodes' = {} THEN entry' = None ELSE entry' \in DOMAIN nodes')]_vars

C13_Witness ==
  /\ op.name = "delete"
  /\ ret = Ok
  /\ op.id \notin DOMAIN records
  /\ entry \in DOMAIN nodes
  /\ nodes[entry].neighbors = <<>>

\* C16: a search whose query length differs from dim returns an empty list,
\* not an error, and leaves the store unchanged.
C16_SearchMismatchIsEmpty ==
  [][(op'.name = "search" /\ Len(op'.query) # config.dim)
       => (/\ ret' = [kind |-> "Results", results |-> <<>>]
           /\ UNCHANGED <<records, nodes, entry>>)]_vars

C16_Witness ==
  /\ op.name = "search"
  /\ Len(op.query) # config.dim
  /\ op.top_k > 0
  /\ ret.kind = "Results"
  /\ DOMAIN nodes # {}

\* C17: a search on an empty graph returns an empty list and never an
\* error, also when the graph became empty through deletes.
C17_EmptyGraphSearch ==
  (op.name = "search" /\ DOMAIN nodes = {})
    => ret = [kind |-> "Results", results |-> <<>>]

\* with max_elements > 0 a record without any node means a node was deleted
C17_Witness ==
  /\ op.name = "search"
  /\ Len(op.query) = config.dim
  /\ op.top_k > 0
  /\ config.max_elements > 0
  /\ DOMAIN nodes = {}
  /\ DOMAIN records # {}
  /\ ret.kind = "Results"

\* C19: every vector of the record map and every node vector has length
\* dim, whatever inserts (failed ones included) and deletes were made.
C19_VectorsHaveDim ==
  /\ \A id \in DOMAIN records : Len(records[id].vector) = config.dim
  /\ \A id \in DOMAIN nodes : Len(nodes[id].vector) = config.dim

C19_Witness ==
  /\ op.name = "insert"
  /\ ret.kind = "DimensionMismatch"
  /\ Cardinality(DOMAIN records) = 3
  /\ Cardinality(DOMAIN nodes) = 2

\* C20: a successful insert invokes the on_insert hook and a search invokes
\* the on_search_results hook before returning.
C20_HooksInvoked ==
  /\ (op.name = "insert" /\ ret = Ok) => "on_insert" \in Range(hooks)
  /\ op.name = "search" => "on_search_results" \in Range(hooks)

\* the items of a batch whose vector has the wrong length, in input order
WrongDim(items) == SelectSeq(items, LAMBDA it : Len(it.vector) # config.dim)

\* C14: batch_insert over N items returns inserted + len(failed) = N, with
\* one (id, reason) entry per item of the wrong dimension, in input order,
\* and inserted counting the other items.
C14_BatchReport ==
  op.name = "batch_insert"
    => (/\ ret.inserted + Len(ret.failed) = Len(op.items)
        /\ ret.inserted = Len(op.items) - Len(WrongDim(op.items))
        /\ Len(ret.failed) = Len(WrongDim(op.items))
        /\ \A i \in 1..Len(ret.failed) :
             /\ ret.failed[i][1] = WrongDim(op.items)[i].id
             /\ ret.failed[i][2] = DimensionMismatch(config.dim, Len(WrongDim(op.items)[i].vector)))

\* three items, only the last of the wrong dimension
C14_Witness ==
  /\ op.name = "batch_insert"
  /\ Len(op.items) = 3
  /\ Len(op.items[3].vector) # config.dim
  /\ ret.inserted = 2
  /\ Len(ret.failed) = 1
  /\ ret.failed[1][1] = op.items[3].id

RECURSIVE SequentialInserts(_, _, _, _)
\* the stores that calling VecBase::insert on items[i..] in order, ignoring
\* the results, can produce from the stores sts
SequentialInserts(cfg, items, i, sts) ==
  IF i > Len(items) THEN sts
  ELSE SequentialInserts(cfg, items, i + 1,
         {[records |-> o.records, nodes |-> o.nodes, entry |-> o.entry]
            : o \in UNION {VecBase_insert(st, cfg, items[i].id, items[i].vector, items[i].metadata) : st \in sts}})

\* C15: batch_insert never rolls back: the store after batch_insert is a
\* store that inserting each item in input order, failures ignored, gives.
C15_BatchIsSequentialInserts ==
  [][op'.name = "batch_insert"
       => [records |-> records', nodes |-> nodes', entry |-> entry']
            \in SequentialInserts(config, op'.items, 1,
                  {[records |-> records, nodes |-> nodes, entry |-> entry]})]_vars

\* a failing item between two items that were both applied
C15_Witness ==
  /\ op.name = "batch_insert"
  /\ Len(op.items) = 3
  /\ Len(op.items[2].vector) # config.dim
  /\ op.items[1].id # op.items[3].id
  /\ {op.items[1].id, op.items[3].id} \subseteq DOMAIN nodes
  /\ Len(ret.failed) = 1

\* the nodes a search call left out of its results
LeftOut(results) == DOMAIN nodes \ ResultIds(results)

\* the score of node id for the query of the last search call
NodeScore(id) == score(MetricOf(config), search_query(MetricOf(config), op.query), nodes[id].vector)

C21_GetSearchReadOnly ==
  [][op'.name \in {"get", "search"} => UNCHANGED <<records, nodes, entry>>]_vars

\* a get that found its record in a store with a wired graph
C21_Witness ==
  /\ op.name = "get"
  /\ ret.kind = "Some"
  /\ ret.record = records[op.id]
  /\ \E x \in DOMAIN nodes : nodes[x].neighbors # <<>>

\* the vector of the node of the i-th result of the last search call
ResultVector(i) == nodes[ret.results[i].id].vector

\* the query of the last search call as the index received it
IndexQuery == search_query(MetricOf(config), op.query)

\* C23: higher score is better under every metric. Under the euclidean
\* metric each result's score is minus its distance to the query, so the
\* results, descending by score, are ascending by distance; under the cosine
\* and dot metrics the score is dot(query, candidate).
C23_ScoreHigherIsBetter ==
  (op.name = "search" /\ ~dimension_mismatch(op.query, config.dim))
    => \A i \in 1..Len(ret.results) :
         IF MetricOf(config) = "Euclidean"
           THEN /\ ret.results[i].score = -euclidean_distance(IndexQuery, ResultVector(i))
                /\ i < Len(ret.results)
                     => euclidean_distance(IndexQuery, ResultVector(i)) <= euclidean_distance(IndexQuery, ResultVector(i + 1))
           ELSE ret.results[i].score = dot(IndexQuery, ResultVector(i))

\* a euclidean search that ranked a nearer node before a farther one
C23_Witness ==
  /\ op.name = "search"
  /\ MetricOf(config) = "Euclidean"
  /\ Len(ret.results) = 2
  /\ euclidean_distance(IndexQuery, ResultVector(1)) < euclidean_distance(IndexQuery, ResultVector(2))
  /\ ret.results[2].score < 0

WiresNewNode ==
  /\ op'.name = "insert"
  /\ ret' = Ok
  /\ op'.id \notin DOMAIN nodes
  /\ DOMAIN nodes # {}
  /\ ~AtCapacity(nodes, config.max_elements)

\* C26: the neighbor list given to a newly inserted node is the
\* min(M, node count) best existing nodes by the cosine score, the dot
\* product of the stored vectors, best first, whatever the configured metric.
C26_WiringRanksByCosine ==
  [][WiresNewNode
       => LET l == nodes'[op'.id].neighbors
              sv == nodes'[op'.id].vector
          IN /\ Len(l) = (IF M < Cardinality(DOMAIN nodes) THEN M ELSE Cardinality(DOMAIN nodes))
             /\ Range(l) \subseteq DOMAIN nodes
             /\ Cardinality(Range(l)) = Len(l)
             /\ \A i \in 1..Len(l) :
                  /\ \A o \in DOMAIN nodes \ Range(l) : dot(sv, nodes[o].vector) <= dot(sv, nodes[l[i]].vector)
                  /\ i < Len(l) => dot(sv, nodes[l[i]].vector) >= dot(sv, nodes[l[i + 1]].vector)]_vars

\* under the euclidean metric the inserted node was wired to a node that is
\* strictly farther from it than a node that was passed over
C26_Witness ==
  /\ op.name = "insert"
  /\ ret = Ok
  /\ MetricOf(config) = "Euclidean"
  /\ op.id \in DOMAIN nodes
  /\ \E n, o \in DOMAIN nodes \ {op.id} :
       /\ nodes[op.id].neighbors = <<n>>
       /\ o # n
       /\ dot(nodes[op.id].vector, nodes[o].vector) < dot(nodes[op.id].vector, nodes[n].vector)
       /\ euclidean_distance(nodes[op.id].vector, nodes[o].vector) < euclidean_distance(nodes[op.id].vector, nodes[n].vector)

\* C27: when a new id x is wired into a non-empty graph, every selected
\* neighbor whose list had fewer than M entries gets x appended, every
\* selected neighbor whose list had M entries keeps its list, and the lists
\* of the nodes that were not selected are unchanged.
C27_BackLinks ==
  [][WiresNewNode
       => \A n \in DOMAIN nodes :
            /\ n \in DOMAIN nodes'
            /\ nodes'[n].neighbors =
                 (IF n \in Range(nodes'[op'.id].neighbors) /\ Len(nodes[n].neighbors) < M
                    THEN Append(nodes[n].neighbors, op'.id)
                    ELSE nodes[n].neighbors)]_vars

\* in a graph of three nodes the inserted node links to n, whose list is full
\* and does not link back
C27_Witness ==
  /\ op.name = "insert"
  /\ ret = Ok
  /\ op.id \in DOMAIN nodes
  /\ \E n \in DOMAIN nodes \ {op.id} :
       /\ n \in Range(nodes[op.id].neighbors)
       /\ Len(nodes[n].neighbors) = M
       /\ op.id \notin Range(nodes[n].neighbors)
  /\ Cardinality(DOMAIN nodes) = 3

\* C28: the id inserted into an empty graph becomes the entry point; an
\* insert never changes an entry point that is set; the entry point changes
\* only by a delete of the id that is the entry point.
C28_EntryIsFirstInserted ==
  [][/\ (op'.name = "insert" /\ ret' = Ok /\ DOMAIN nodes = {} /\ ~AtCapacity(nodes, config.max_elements))
          => entry' = op'.id
     /\ (op'.name = "insert" /\ entry # None) => entry' = entry
     /\ (entry # None /\ entry' # entry) => (op'.name = "delete" /\ op'.id = entry)]_vars

\* a second node was inserted and the entry point is still the first one
C28_Witness ==
  /\ op.name = "insert"
  /\ ret = Ok
  /\ Cardinality(DOMAIN nodes) = 2
  /\ entry \in DOMAIN nodes \ {op.id}
  /\ nodes[op.id].neighbors = <<entry>>
  /\ nodes[entry].neighbors = <<op.id>>

RECURSIVE Without(_, _)
\* the entries of the list s other than id, in their order
Without(s, id) ==
  IF s = <<>> THEN <<>>
  ELSE IF s[1] = id THEN Without(Tail(s), id) ELSE <<s[1]>> \o Without(Tail(s), id)

C25_WiringUsesSearchRegime ==
  [][WiresNewNode
       => \E order \in Orders(DOMAIN nodes) :
            LET found == HnswIndex_search(nodes, entry, order, nodes'[op'.id].vector, M, "Cosine")
            IN nodes'[op'.id].neighbors = [i \in 1..Len(found) |-> found[i].id]]_vars

\* C22: with dim 4 and the cosine metric, once cat, dog, car, bus and fish
\* of the example are stored, search([0.95, 0.05, 0, 0], 3) returns exactly
\* the ids cat, dog, fish, in that order.
C22_ExampleSearch ==
  (/\ op.name = "search"
   /\ op.query = ExampleQuery
   /\ op.top_k = ExampleK
   /\ DOMAIN records = ExampleIds)
    => [i \in 1..Len(ret.results) |-> ret.results[i].id] = <<"cat", "dog", "fish">>

\* the search of the example after its five inserts, with the scores of the
\* three results strictly decreasing
C22_Witness ==
  /\ op.name = "search"
  /\ op.query = ExampleQuery
  /\ op.top_k = ExampleK
  /\ DOMAIN records = ExampleIds
  /\ entry = "cat"
  /\ Len(ret.results) = 3
  /\ ret.results[1].score > ret.results[2].score
  /\ ret.results[2].score > ret.results[3].score
  /\ ret.results[3].metadata = "label:fish"

RECURSIVE ReachFrom(_, _)
\* the nodes that neighbor lists lead to from the nodes of frontier, seen
\* included
ReachFrom(seen, frontier) ==
  IF frontier = {} THEN seen
  ELSE LET next == UNION {Range(nodes[x].neighbors) \cap DOMAIN nodes : x \in frontier} \ (seen \cup frontier)
       IN ReachFrom(seen \cup frontier, next)

\* the nodes the traversal can reach from the entry point
Reachable == IF entry \in DOMAIN nodes THEN ReachFrom({}, {entry}) ELSE {}

\* the result accumulator of graph_search when its while loop ends, for the
\* last search call
Accumulator ==
  GraphLoop(nodes, IndexQuery, MetricOf(config), Ef(op.top_k),
            IF entry \in DOMAIN nodes THEN {entry} ELSE {},
            IF entry \in DOMAIN nodes
              THEN <<[id |-> entry, score |-> score(MetricOf(config), IndexQuery, nodes[entry].vector)]>>
              ELSE <<>>,
            <<>>)

\* C30: in the graph regime the accumulator never holds more than 4 * top_k
\* entries: the loop ends exactly when the accumulator has 4 * top_k entries
\* or every node reachable from the entry point has been taken, and the
\* result is the accumulator sorted by score and truncated to top_k.
C30_TraversalBudget ==
  (/\ op.name = "search"
   /\ ~dimension_mismatch(op.query, config.dim)
   /\ Cardinality(DOMAIN nodes) > BRUTE_THRESHOLD)
    => (/\ Len(Accumulator) <= 4 * op.top_k
        /\ Len(Accumulator) = (IF 4 * op.top_k < Cardinality(Reachable) THEN 4 * op.top_k ELSE Cardinality(Reachable))
        /\ ResultIds(Accumulator) \subseteq Reachable
        /\ Cardinality(ResultIds(Accumulator)) = Len(Accumulator)
        /\ ret.results = Join(records, Truncate(SortDesc(Accumulator), op.top_k)))

\* a search with top_k = 1 that stopped at four entries with a fifth
\* reachable node left, the best match of the query
C30_Witness ==
  /\ op.name = "search"
  /\ op.top_k = 1
  /\ Cardinality(DOMAIN nodes) > BRUTE_THRESHOLD
  /\ Cardinality(Reachable) = 5
  /\ Len(Accumulator) = 4
  /\ Len(ret.results) = 1
  /\ \E x \in Reachable \ ResultIds(Accumulator) : NodeScore(x) > ret.results[1].score

\* the last call was a search in the graph regime with a query of length dim
GraphRegimeSearch ==
  /\ op.name = "search"
  /\ ~dimension_mismatch(op.query, config.dim)
  /\ Cardinality(DOMAIN nodes) > BRUTE_THRESHOLD

\* C31: in the graph regime every returned id is a node of the graph that
\* neighbor lists lead to from the entry point, and no id is returned twice.
C31_ResultsReachableFromEntry ==
  GraphRegimeSearch
    => (/\ ResultIds(ret.results) \subseteq DOMAIN nodes
        /\ ResultIds(ret.results) \subseteq Reachable
        /\ Cardinality(ResultIds(ret.results)) = Len(ret.results))

\* a graph-regime search that left out a node the entry point does not lead
\* to, although it scores higher than the last result
C31_Witness ==
  /\ GraphRegimeSearch
  /\ Len(ret.results) >= 1
  /\ \E x \in DOMAIN nodes \ Reachable : NodeScore(x) > ret.results[Len(ret.results)].score

\* C32: in the graph regime a search with top_k >= 1 returns exactly
\* min(top_k, R) results, R the number of nodes reachable from the entry
\* point; so fewer than top_k while more than top_k nodes are stored, when
\* part of the graph is unreachable.
C32_ResultCountIsMinOfKAndReach ==
  (GraphRegimeSearch /\ op.top_k >= 1)
    => Len(ret.results) = (IF op.top_k < Cardinality(Reachable) THEN op.top_k ELSE Cardinality(Reachable))

\* fewer results than top_k although more than top_k nodes are stored
C32_Witness ==
  /\ GraphRegimeSearch
  /\ op.top_k >= 1
  /\ Len(ret.results) < op.top_k
  /\ op.top_k < Cardinality(DOMAIN nodes)
  /\ Len(ret.results) = Cardinality(Reachable)

C34_JoinDropsNothing ==
  /\ DOMAIN nodes \subseteq DOMAIN records
  /\ (op.name = "search" /\ ~dimension_mismatch(op.query, config.dim))
       => \E order \in Orders(DOMAIN nodes) :
            LET found == HnswIndex_search(nodes, entry, order, IndexQuery, op.top_k, MetricOf(config))
            IN /\ Len(ret.results) = Len(found)
               /\ \A i \in 1..Len(found) :
                    /\ ret.results[i].id = found[i].id
                    /\ ret.results[i].score = found[i].score
                    /\ ret.results[i].metadata = records[found[i].id].metadata

\* a search over two nodes, one with metadata, in a store that holds a
\* record without a node
C34_Witness ==
  /\ op.name = "search"
  /\ Len(ret.results) = 2
  /\ \E i \in 1..2 : ret.results[i].metadata = "m1"
  /\ DOMAIN nodes # DOMAIN records

\* C35: every id held in a neighbor list names a node of the graph: no
\* insert, re-insert or remove leaves a dangling reference.
C35_NoDanglingNeighbor ==
  \A x \in DOMAIN nodes : Range(nodes[x].neighbors) \subseteq DOMAIN nodes

\* a delete left a node whose list names another remaining node
C35_Witness ==
  /\ op.name = "delete"
  /\ ret = Ok
  /\ \E x, y \in DOMAIN nodes : x # y /\ nodes[x].neighbors = <<y>>

\* C36: the entry point is set if and only if the graph holds a node.
C36_EntrySetIffNonEmpty == (entry # None) <=> (DOMAIN nodes # {})

\* a delete emptied a graph that could hold nodes and cleared the entry
C36_Witness ==
  /\ op.name = "delete"
  /\ ret = Ok
  /\ config.max_elements > 0
  /\ DOMAIN nodes = {}
  /\ entry = None

\* C37: the graph never holds more than max_elements nodes, also after
\* re-inserts of ids that are nodes and after deletes followed by inserts.
C37_NodesWithinMaxElements == Cardinality(DOMAIN nodes) <= config.max_elements

\* an insert of an id that is not a node was turned away by a full graph
C37_Witness ==
  /\ op.name = "insert"
  /\ ret = Ok
  /\ config.max_elements > 0
  /\ Cardinality(DOMAIN nodes) = config.max_elements
  /\ op.id \notin DOMAIN nodes

InsertedFresh(id, item) ==
  {o \in VecBase_insert([records |-> records, nodes |-> nodes, entry |-> entry], config, id, item.vector, item.metadata) : o.ret = Ok}

\* C39: from every reachable state, a successful insert of an id that is not
\* stored, followed at once by the delete of that id, succeeds and restores
\* the record map, the nodes with their neighbor lists and the entry point,
\* whether the graph was at capacity or not.
C39_InsertDeleteRoundTrip ==
  \A id \in Ids \ DOMAIN records, item \in Items :
    \A o \in InsertedFresh(id, item) :
      \A d \in VecBase_delete(o, id) :
        /\ d.ret = Ok
        /\ d.records = records
        /\ d.nodes = nodes
        /\ d.entry = entry

\* a state from which the insert of an id that is not stored adds the id to
\* the neighbor list of a node that is there
C39_Witness ==
  \E id \in Ids \ DOMAIN records, item \in Items :
    \E o \in InsertedFresh(id, item) :
      /\ id \in DOMAIN o.nodes
      /\ \E y \in DOMAIN nodes : o.nodes[y].neighbors = Append(nodes[y].neighbors, id)
      /\ \A d \in VecBase_delete(o, id) : d.nodes = nodes

====
